---- MODULE Spec2Model ----
(***************************************************************************)
(* Model of modfibo.py: the orbit enumerator modulo_fibonacci, the bit-    *)
(* packed VisitedMap with its lazy free-pair scanner, and group_by_length. *)
(***************************************************************************)
EXTENDS Integers, Sequences, FiniteSets, TLC

VARIABLES
    base,       \* argument of modulo_fibonacci
    pc,         \* where the thread of control is
    side,       \* VisitedMap.side
    map,        \* VisitedMap.map, a sequence of bytes (0-based byte i is map[i+1])
    spc,        \* position of the iterate_free_pairs generator
    byte_pos,   \* scanner local
    bit_pos,    \* scanner local
    byte,       \* scanner local: the copy of map[byte_pos] it tests
    n1, n2,     \* current pair of the enumerator
    run,        \* orbit buffer of the current walk
    orbits,     \* the orbits emitted so far, in order
    grouped,    \* the defaultdict of group_by_length
    result,     \* the value group_by_length returns: a sequence of <<length, bucket>>
    yielded,    \* history: the pairs the scanner has yielded, in order
    marks,      \* history: <<walk, a, b>> for every visit that returned false in a walk
    calls,      \* history: the visit calls of a free consumer, [a, b, ret]
    shown       \* number of runs Alphabet.dump has printed

vars == <<base, pc, side, map, spc, byte_pos, bit_pos, byte, n1, n2, run,
          orbits, grouped, result, yielded, marks, calls, shown>>

\* Bounds
InvalidBases == 2
MaxBase == 10
MaxScanBase == 3
MaxVisits == 3

----------------------------------------------------------------------------
\* Arithmetic helpers

Abs(x) == IF x < 0 THEN -x ELSE x

Pow2(k) == 2 ^ k

\* byte & (1 << k) != 0
BitSet(b, k) == (b \div Pow2(k)) % 2 = 1

\* byte | (1 << k)
OrBitAdd(b, k) == b + Pow2(k)

OrBit(b, k) == IF BitSet(b, k) THEN b ELSE b + Pow2(k)

\* math.ceil(side * side / 8)
MapLen(s) == (s * s + 7) \div 8

\* VisitedMap.__init__
NewMap(s) == [i \in 1..MapLen(s) |-> 0]

\* pos = n1 * self.side + n2
PosBad(s, a, b) == a + b

Pos(s, a, b) == a * s + b

\* VisitedMap.visit: returns the bit before the call, and the map with the bit set
VisitFirst(m, s, a, b) ==
    LET pos == Pos(s, a, b)
        bp  == pos \div 8
        k   == pos % 8
    IN [ret |-> ~BitSet(m[bp + 1], k),
        map |-> [m EXCEPT ![bp + 1] = OrBit(m[bp + 1], k)]]

Visit(m, s, a, b) ==
    LET pos == Pos(s, a, b)
        bp  == pos \div 8
        k   == pos % 8
    IN [ret |-> BitSet(m[bp + 1], k),
        map |-> [m EXCEPT ![bp + 1] = OrBit(m[bp + 1], k)]]

\* the visited bit of a pair, read from the packed array
Marked(m, s, a, b) == BitSet(m[(Pos(s, a, b) \div 8) + 1], Pos(s, a, b) % 8)

Pairs(s) == (0..(s - 1)) \X (0..(s - 1))

----------------------------------------------------------------------------
\* group_by_length

Max(S) == CHOOSE x \in S : \A y \in S : y <= x
Min(S) == CHOOSE x \in S : \A y \in S : x <= y

RECURSIVE SortedAsc(_)
SortedAsc(S) == IF S = {} THEN <<>> ELSE <<Min(S)>> \o SortedAsc(S \ {Min(S)})

\* sorted(keys, reverse=True)
RECURSIVE SortedDesc(_)
SortedDesc(S) == IF S = {} THEN <<>> ELSE <<Max(S)>> \o SortedDesc(S \ {Max(S)})

\* grouped[len(item)].append(item)
GroupAppend(g, item) ==
    LET k == Len(item)
    IN IF k \in DOMAIN g
       THEN [g EXCEPT ![k] = Append(@, item)]
       ELSE g @@ (k :> <<item>>)

\* collections.OrderedDict(sorted(grouped.items(), reverse=True))
OrderedItems(g) ==
    LET ks == SortedDesc(DOMAIN g)
    IN [i \in 1..Len(ks) |-> <<ks[i], g[ks[i]]>>]

----------------------------------------------------------------------------
\* Initial states

EmptyDict == [k \in {} |-> <<>>]

Init ==
    /\ base \in (0 - InvalidBases)..MaxBase
    /\ pc = "start"
    /\ side = 0
    /\ map = <<>>
    /\ spc = "none"
    /\ byte_pos = 0
    /\ bit_pos = 0
    /\ byte = 0
    /\ n1 = 0
    /\ n2 = 0
    /\ run = <<>>
    /\ orbits = <<>>
    /\ grouped = EmptyDict
    /\ result = <<>>
    /\ yielded = <<>>
    /\ marks = <<>>
    /\ calls = <<>>
    /\ shown = 0

\* A VisitedMap and a fresh scan of it, in the hands of a consumer that is
\* free to call visit between pulls.
ScanInit ==
    /\ base \in 1..MaxScanBase
    /\ pc = "consumer"
    /\ side = Abs(base)
    /\ map = NewMap(base)
    /\ spc = "byteload"
    /\ byte_pos = 0
    /\ bit_pos = 0
    /\ byte = 0
    /\ n1 = 0
    /\ n2 = 0
    /\ run = <<>>
    /\ orbits = <<>>
    /\ grouped = EmptyDict
    /\ result = <<>>
    /\ yielded = <<>>
    /\ marks = <<>>
    /\ calls = <<>>
    /\ shown = 0

----------------------------------------------------------------------------
\* modulo_fibonacci: entry

\* if base <= 0: raise ValueError; else visited_map = VisitedMap(base) and the
\* for statement creates the scanner and pulls from it
StartStrict ==
    /\ pc = "start"
    /\ IF base < 0
       THEN /\ pc' = "error"
            /\ UNCHANGED <<side, map, spc, byte_pos>>
       ELSE /\ side' = Abs(base)
            /\ map' = NewMap(base)
            /\ spc' = "byteload"
            /\ byte_pos' = 0
            /\ pc' = "scan"
    /\ UNCHANGED <<base, bit_pos, byte, n1, n2, run, orbits, grouped, result,
                   yielded, marks, calls, shown>>

Start ==
    /\ pc = "start"
    /\ IF base <= 0
       THEN /\ pc' = "error"
            /\ UNCHANGED <<side, map, spc, byte_pos>>
       ELSE /\ side' = Abs(base)
            /\ map' = NewMap(base)
            /\ spc' = "byteload"
            /\ byte_pos' = 0
            /\ pc' = "scan"
    /\ UNCHANGED <<base, bit_pos, byte, n1, n2, run, orbits, grouped, result,
                   yielded, marks, calls, shown>>

----------------------------------------------------------------------------
\* VisitedMap.iterate_free_pairs

\* the inner for loop moves to the next bit, or ends and the outer loop
\* moves to the next byte
NextBitSeven ==
    IF bit_pos < 6
    THEN /\ bit_pos' = bit_pos + 1
         /\ byte_pos' = byte_pos
         /\ spc' = "test"
    ELSE /\ bit_pos' = bit_pos
         /\ byte_pos' = byte_pos + 1
         /\ spc' = "byteload"

NextBit ==
    IF bit_pos < 7
    THEN /\ bit_pos' = bit_pos + 1
         /\ byte_pos' = byte_pos
         /\ spc' = "test"
    ELSE /\ bit_pos' = bit_pos
         /\ byte_pos' = byte_pos + 1
         /\ spc' = "byteload"

\* for byte_pos in range(len(self.map)): byte = self.map[byte_pos]
ScanLoadByte ==
    /\ pc = "scan"
    /\ spc = "byteload"
    /\ IF byte_pos < Len(map)
       THEN /\ byte' = map[byte_pos + 1]
            /\ bit_pos' = 0
            /\ spc' = "test"
            /\ pc' = pc
       ELSE /\ spc' = "returned"
            /\ pc' = "stop"
            /\ UNCHANGED <<byte, bit_pos>>
    /\ UNCHANGED <<base, side, map, byte_pos, n1, n2, run, orbits, grouped,
                   result, yielded, marks, calls, shown>>

\* if byte & bit == 0: ... return or yield
ScanTestNoEnd ==
    /\ pc = "scan"
    /\ spc = "test"
    /\ IF ~BitSet(byte, bit_pos)
       THEN LET pos == byte_pos * 8 + bit_pos
            IN /\ spc' = "yielded"
               /\ pc' = "got"
               /\ n1' = pos \div side
               /\ n2' = pos % side
               /\ yielded' = Append(yielded, <<pos \div side, pos % side>>)
               /\ UNCHANGED <<byte_pos, bit_pos>>
       ELSE /\ NextBit
            /\ UNCHANGED <<pc, n1, n2, yielded>>
    /\ UNCHANGED <<base, side, map, byte, run, orbits, grouped, result,
                   marks, calls, shown>>

ScanTestOffByOne ==
    /\ pc = "scan"
    /\ spc = "test"
    /\ IF ~BitSet(byte, bit_pos)
       THEN LET pos == byte_pos * 8 + bit_pos
            IN IF pos \div side > side
               THEN /\ spc' = "returned"
                    /\ pc' = "stop"
                    /\ UNCHANGED <<byte_pos, bit_pos, n1, n2, yielded>>
               ELSE /\ spc' = "yielded"
                    /\ pc' = "got"
                    /\ n1' = pos \div side
                    /\ n2' = pos % side
                    /\ yielded' = Append(yielded, <<pos \div side, pos % side>>)
                    /\ UNCHANGED <<byte_pos, bit_pos>>
       ELSE /\ NextBit
            /\ UNCHANGED <<pc, n1, n2, yielded>>
    /\ UNCHANGED <<base, side, map, byte, run, orbits, grouped, result,
                   marks, calls, shown>>

ScanTestStuck ==
    /\ pc = "scan"
    /\ spc = "test"
    /\ IF ~BitSet(byte, bit_pos)
       THEN LET pos == byte_pos * 8 + bit_pos
            IN IF pos \div side >= side
               THEN /\ spc' = "returned"
                    /\ pc' = "stop"
                    /\ UNCHANGED <<byte_pos, bit_pos, n1, n2, yielded>>
               ELSE /\ spc' = "yielded"
                    /\ pc' = "got"
                    /\ n1' = pos \div side
                    /\ n2' = pos % side
                    /\ yielded' = Append(yielded, <<pos \div side, pos % side>>)
                    /\ UNCHANGED <<byte_pos, bit_pos>>
       ELSE UNCHANGED <<spc, byte_pos, bit_pos, pc, n1, n2, yielded>>
    /\ UNCHANGED <<base, side, map, byte, run, orbits, grouped, result,
                   marks, calls, shown>>

ScanTest ==
    /\ pc = "scan"
    /\ spc = "test"
    /\ IF ~BitSet(byte, bit_pos)
       THEN LET pos == byte_pos * 8 + bit_pos
            IN IF pos \div side >= side
               THEN /\ spc' = "returned"
                    /\ pc' = "stop"
                    /\ UNCHANGED <<byte_pos, bit_pos, n1, n2, yielded>>
               ELSE /\ spc' = "yielded"
                    /\ pc' = "got"
                    /\ n1' = pos \div side
                    /\ n2' = pos % side
                    /\ yielded' = Append(yielded, <<pos \div side, pos % side>>)
                    /\ UNCHANGED <<byte_pos, bit_pos>>
       ELSE /\ NextBit
            /\ UNCHANGED <<pc, n1, n2, yielded>>
    /\ UNCHANGED <<base, side, map, byte, run, orbits, grouped, result,
                   marks, calls, shown>>

\* the generator is resumed after its yield: byte = self.map[byte_pos]
ScanResumeStale ==
    /\ pc = "scan"
    /\ spc = "yielded"
    /\ byte' = byte
    /\ NextBit
    /\ UNCHANGED <<base, pc, side, map, n1, n2, run, orbits, grouped, result,
                   yielded, marks, calls, shown>>

ScanResume ==
    /\ pc = "scan"
    /\ spc = "yielded"
    /\ byte' = map[byte_pos + 1]
    /\ NextBit
    /\ UNCHANGED <<base, pc, side, map, n1, n2, run, orbits, grouped, result,
                   yielded, marks, calls, shown>>

----------------------------------------------------------------------------
\* modulo_fibonacci: the walk, consumed by group_by_length

\* run = []
BeginWalkNoReset ==
    /\ pc = "got"
    /\ run' = run
    /\ pc' = "walk"
    /\ UNCHANGED <<base, side, map, spc, byte_pos, bit_pos, byte, n1, n2,
                   orbits, grouped, result, yielded, marks, calls, shown>>

BeginWalk ==
    /\ pc = "got"
    /\ run' = <<>>
    /\ pc' = "walk"
    /\ UNCHANGED <<base, side, map, spc, byte_pos, bit_pos, byte, n1, n2,
                   orbits, grouped, result, yielded, marks, calls, shown>>

\* visit returned false: n1, n2 = n2, (n1 + n2) % base; run.append(n1)
WalkAdvanceNewSecond ==
    /\ pc = "walk"
    /\ ~Visit(map, side, n1, n2).ret
    /\ map' = Visit(map, side, n1, n2).map
    /\ marks' = Append(marks, <<Len(orbits) + 1, n1, n2>>)
    /\ n1' = n2
    /\ n2' = (n1 + n2) % base
    /\ run' = Append(run, n2')
    /\ UNCHANGED <<base, pc, side, spc, byte_pos, bit_pos, byte, orbits,
                   grouped, result, yielded, calls, shown>>

WalkAdvanceNoMod ==
    /\ pc = "walk"
    /\ ~Visit(map, side, n1, n2).ret
    /\ map' = Visit(map, side, n1, n2).map
    /\ marks' = Append(marks, <<Len(orbits) + 1, n1, n2>>)
    /\ n1' = n2
    /\ n2' = n1 + n2
    /\ run' = Append(run, n1')
    /\ UNCHANGED <<base, pc, side, spc, byte_pos, bit_pos, byte, orbits,
                   grouped, result, yielded, calls, shown>>

WalkAdvance ==
    /\ pc = "walk"
    /\ ~Visit(map, side, n1, n2).ret
    /\ map' = Visit(map, side, n1, n2).map
    /\ marks' = Append(marks, <<Len(orbits) + 1, n1, n2>>)
    /\ n1' = n2
    /\ n2' = (n1 + n2) % base
    /\ run' = Append(run, n1')
    /\ UNCHANGED <<base, pc, side, spc, byte_pos, bit_pos, byte, orbits,
                   grouped, result, yielded, calls, shown>>

\* visit returned true: yield run; the consumer files it and pulls again
WalkCloseAppend ==
    /\ pc = "walk"
    /\ Visit(map, side, n1, n2).ret
    /\ map' = Visit(map, side, n1, n2).map
    /\ orbits' = Append(orbits, Append(run, n1))
    /\ grouped' = GroupAppend(grouped, Append(run, n1))
    /\ pc' = "scan"
    /\ UNCHANGED <<base, side, spc, byte_pos, bit_pos, byte, n1, n2, run,
                   result, yielded, marks, calls, shown>>

WalkClose ==
    /\ pc = "walk"
    /\ Visit(map, side, n1, n2).ret
    /\ map' = Visit(map, side, n1, n2).map
    /\ orbits' = Append(orbits, run)
    /\ grouped' = GroupAppend(grouped, run)
    /\ pc' = "scan"
    /\ UNCHANGED <<base, side, spc, byte_pos, bit_pos, byte, n1, n2, run,
                   result, yielded, marks, calls, shown>>

\* the scanner is exhausted: the enumeration ends and group_by_length returns
Finish ==
    /\ pc = "stop"
    /\ result' = OrderedItems(grouped)
    /\ pc' = "done"
    /\ UNCHANGED <<base, side, map, spc, byte_pos, bit_pos, byte, n1, n2, run,
                   orbits, grouped, yielded, marks, calls, shown>>

----------------------------------------------------------------------------
\* main: Alphabet(base).dump(run for group in grouped_runs.values() for run in group)

\* number of runs in the buckets before bucket i
RECURSIVE RunsBefore(_, _)
RunsBefore(items, i) ==
    IF i <= 1 THEN 0 ELSE RunsBefore(items, i - 1) + Len(items[i - 1][2])

TotalRuns(items) == RunsBefore(items, Len(items) + 1)

\* the bucket that holds the k-th run of the flattened iteration (k from 1)
BucketOf(items, k) ==
    CHOOSE i \in 1..Len(items) :
        RunsBefore(items, i) < k /\ k <= RunsBefore(items, i) + Len(items[i][2])

\* run.pop(): the list without its last element
Pop(r) == SubSeq(r, 1, Len(r) - 1)

\* one iteration of the for loop of dump: run.pop() removes the last element
\* from the list object the bucket holds (IndexError on an empty list)
DumpRun ==
    /\ pc \in {"done", "dump"}
    /\ shown < TotalRuns(result)
    /\ LET i == BucketOf(result, shown + 1)
           j == shown + 1 - RunsBefore(result, i)
       IN IF result[i][2][j] = <<>>
          THEN /\ pc' = "crash"
               /\ UNCHANGED <<result, shown>>
          ELSE /\ result' = [result EXCEPT ![i][2][j] = Pop(@)]
               /\ shown' = shown + 1
               /\ pc' = "dump"
    /\ UNCHANGED <<base, side, map, spc, byte_pos, bit_pos, byte, n1, n2, run,
                   orbits, grouped, yielded, marks, calls>>

\* dump has printed every run; main reports the histogram
Report ==
    /\ pc \in {"done", "dump"}
    /\ shown = TotalRuns(result)
    /\ pc' = "shown"
    /\ UNCHANGED <<base, side, map, spc, byte_pos, bit_pos, byte, n1, n2, run,
                   orbits, grouped, result, yielded, marks, calls, shown>>

----------------------------------------------------------------------------
\* A free consumer of one VisitedMap and one scan of it

FreeVisit(a, b) ==
    /\ pc \in {"consumer", "got", "stop"}
    /\ Len(calls) < MaxVisits
    /\ map' = Visit(map, side, a, b).map
    /\ calls' = Append(calls, [a |-> a, b |-> b, ret |-> Visit(map, side, a, b).ret])
    /\ pc' = IF pc = "stop" THEN "stop" ELSE "consumer"
    /\ UNCHANGED <<base, side, spc, byte_pos, bit_pos, byte, n1, n2, run,
                   orbits, grouped, result, yielded, marks, shown>>

FreePull ==
    /\ pc \in {"consumer", "got"}
    /\ pc' = "scan"
    /\ UNCHANGED <<base, side, map, spc, byte_pos, bit_pos, byte, n1, n2, run,
                   orbits, grouped, result, yielded, marks, calls, shown>>

----------------------------------------------------------------------------
\* Specifications

Next ==
    \/ Start
    \/ ScanLoadByte
    \/ ScanTest
    \/ ScanResume
    \/ BeginWalk
    \/ WalkAdvance
    \/ WalkClose
    \/ Finish
    \/ DumpRun
    \/ Report

Spec == Init /\ [][Next]_vars

\* one thread of control whose consumer keeps pulling
FairSpec == Init /\ [][Next]_vars /\ WF_vars(Next)

ScanNext ==
    \/ ScanLoadByte
    \/ ScanTest
    \/ ScanResume
    \/ FreePull
    \/ \E p \in Pairs(side) : FreeVisit(p[1], p[2])

ScanSpec == ScanInit /\ [][ScanNext]_vars

----------------------------------------------------------------------------
\* Properties

MarkedPair(i) == <<marks[i][2], marks[i][3]>>

Flat(p) == p[1] * base + p[2]

RECURSIVE SumLen(_)
SumLen(seq) == IF seq = <<>> THEN 0 ELSE Len(Head(seq)) + SumLen(Tail(seq))

RECURSIVE GroupSum(_)
GroupSum(items) ==
    IF items = <<>> THEN 0
    ELSE Head(items)[1] * Len(Head(items)[2]) + GroupSum(Tail(items))

\* C1: partition. No pair is marked as a first visit twice (so each pair is
\* marked by one walk only), and once the enumeration has ended the pairs
\* marked are exactly the base*base pairs and every pair's bit is set.
PartitionHolds ==
    /\ \A i, j \in 1..Len(marks) : i # j => MarkedPair(i) # MarkedPair(j)
    /\ pc \in {"stop", "done"} =>
          /\ {MarkedPair(i) : i \in 1..Len(marks)} = Pairs(base)
          /\ Len(marks) = base * base
          /\ \A p \in Pairs(base) : Marked(map, side, p[1], p[2])

PartitionReached ==
    /\ pc = "done"
    /\ base = 4
    /\ Len(marks) = 16
    /\ Len(orbits) = 4

\* C2: termination. With a consumer that keeps pulling, every walk closes and
\* for every positive base the enumeration reaches its terminal state.
EnumerationTerminates ==
    /\ (base > 0 /\ pc = "start") ~> (pc = "done")
    /\ (pc = "walk") ~> (pc = "scan")

TerminatedRun ==
    /\ pc = "done"
    /\ base = 7
    /\ spc = "returned"
    /\ Len(orbits) = 4

\* C3: total element count. When the enumeration has ended the lengths of
\* the emitted orbits add up to base*base, and so do the buckets of the
\* grouped result (length times number of orbits); for base 10 that is 100.
TotalElementCount ==
    pc = "done" =>
        /\ SumLen(orbits) = base * base
        /\ GroupSum(result) = base * base
        /\ base = 10 => (SumLen(orbits) = 100 /\ GroupSum(result) = 100)

TotalOfBaseTen ==
    /\ pc = "done"
    /\ base = 10
    /\ SumLen(orbits) = 100
    /\ Len(result) = 6

InvalidBaseRejected ==
    (base <= 0 /\ pc # "start") =>
        /\ pc = "error"
        /\ map = <<>>
        /\ side = 0
        /\ spc = "none"
        /\ marks = <<>>
        /\ yielded = <<>>
        /\ orbits = <<>>
        /\ result = <<>>

ZeroBaseRejected ==
    /\ pc = "error"
    /\ base = 0

BaseOneBoundary ==
    base = 1 =>
        /\ Len(map) <= 1
        /\ Len(yielded) <= 1
        /\ \A i \in 1..Len(yielded) : yielded[i] = <<0, 0>>
        /\ Len(marks) <= 1
        /\ pc = "done" =>
              /\ yielded = << <<0, 0>> >>
              /\ Len(orbits) = 1
              /\ Len(orbits[1]) <= 1
              /\ marks = << <<1, 0, 0>> >>

BaseOneDone ==
    /\ base = 1
    /\ pc = "done"
    /\ spc = "returned"
    /\ bit_pos = 1

\* C8: scanner freshness. Whatever visit calls the consumer made between
\* pulls, a pair the scanner has just yielded has its bit unset in the map.
YieldedPairIsUnmarked ==
    pc = "got" => ~Marked(map, side, n1, n2)

YieldAfterInterleavedVisit ==
    /\ pc = "got"
    /\ base = 3
    /\ yielded = << <<0, 0>>, <<0, 2>> >>
    /\ Len(calls) = 1
    /\ calls[1].a = 0 /\ calls[1].b = 1

\* C9: scanner order and bounds. The pairs one scan yields are in strictly
\* ascending flat index, each inside the state space, and a scan that has
\* ended stopped with its cursor at or past index base*base.
ScanAscendingInRange ==
    /\ \A i \in 1..Len(yielded) : yielded[i] \in Pairs(base)
    /\ \A i, j \in 1..Len(yielded) : i < j => Flat(yielded[i]) < Flat(yielded[j])
    /\ spc = "returned" => byte_pos * 8 + bit_pos >= base * base

ScanEndedInPadding ==
    /\ spc = "returned"
    /\ base = 3
    /\ byte_pos = 1
    /\ bit_pos = 1
    /\ Len(yielded) >= 2

\* C10: grouping. The keys of the returned mapping are in strictly descending
\* order, every bucket holds exactly the emitted orbits of its key's length in
\* the order they were emitted, and every emitted orbit's length is a key.
GroupedByLength ==
    pc = "done" =>
        /\ \A i, j \in 1..Len(result) : i < j => result[i][1] > result[j][1]
        /\ \A i \in 1..Len(result) :
              result[i][2] = SelectSeq(orbits, LAMBDA o : Len(o) = result[i][1])
        /\ \A k \in 1..Len(orbits) :
              \E i \in 1..Len(result) : result[i][1] = Len(orbits[k])

GroupedBaseEight ==
    /\ pc = "done"
    /\ base = 8
    /\ Len(result) = 4
    /\ Len(result[1][2]) = 4

\* C12: VisitedMap invariant. The bit of a pair is set exactly when visit was
\* called on that pair, no padding bit past index base*base - 1 is set, and
\* every storage unit stays a byte.
Called(p) == \E i \in 1..Len(calls) : calls[i].a = p[1] /\ calls[i].b = p[2]

BitAt(m, pos) == BitSet(m[(pos \div 8) + 1], pos % 8)

BitSetIffVisited ==
    /\ \A p \in Pairs(base) : Marked(map, side, p[1], p[2]) <=> Called(p)
    /\ \A pos \in (base * base)..(8 * Len(map) - 1) : ~BitAt(map, pos)
    /\ \A i \in 1..Len(map) : map[i] \in 0..255

ThreePairsVisited ==
    /\ base = 3
    /\ Len(calls) = 3
    /\ ~calls[1].ret /\ ~calls[2].ret /\ ~calls[3].ret
    /\ map = <<130, 1>>

\* C13: scanner completeness. Every pair the scan cursor has passed was
\* yielded or had been the argument of a visit call, no pair is yielded
\* twice, and a scan that has ended has passed every pair.
Cursor ==
    IF spc = "test" THEN byte_pos * 8 + bit_pos
    ELSE IF spc = "yielded" THEN byte_pos * 8 + bit_pos + 1
    ELSE IF spc = "returned" /\ byte_pos < Len(map) THEN byte_pos * 8 + bit_pos
    ELSE byte_pos * 8

WasYielded(p) == \E i \in 1..Len(yielded) : yielded[i] = p

ScanComplete ==
    /\ \A p \in Pairs(base) : Flat(p) < Cursor => (WasYielded(p) \/ Called(p))
    /\ \A i, j \in 1..Len(yielded) : i # j => yielded[i] # yielded[j]
    /\ spc = "returned" => Cursor >= base * base

ScanSkippedTwoVisited ==
    /\ spc = "returned"
    /\ base = 3
    /\ Len(yielded) = 7
    /\ Len(calls) = 2
    /\ ~WasYielded(<<0, 1>>)
    /\ ~WasYielded(<<2, 1>>)

WalkTrace(k) ==
    LET ms == SelectSeq(marks, LAMBDA m : m[1] = k)
    IN [i \in 1..Len(ms) |-> ms[i][3]]

OrbitIsWalkTrace ==
    /\ \A k \in 1..Len(orbits) : orbits[k] = WalkTrace(k)
    /\ pc = "walk" => run = WalkTrace(Len(orbits) + 1)

TracedBaseSix ==
    /\ pc = "done"
    /\ base = 6
    /\ Len(orbits) = 4
    /\ Len(orbits[2]) = 24
    /\ Len(WalkTrace(2)) = 24

\* C16: range safety. For a positive base the current pair and every element
\* of the buffer and of the emitted orbits lie in [0, base), and a visit call
\* computes a flat index in [0, base*base - 1] whose byte is inside the array.
RangeSafe ==
    base > 0 =>
        /\ n1 \in 0..(base - 1)
        /\ n2 \in 0..(base - 1)
        /\ \A i \in 1..Len(run) : run[i] \in 0..(base - 1)
        /\ \A k \in 1..Len(orbits) :
              \A i \in 1..Len(orbits[k]) : orbits[k][i] \in 0..(base - 1)
        /\ pc = "walk" =>
              /\ Pos(side, n1, n2) \in 0..(base * base - 1)
              /\ Pos(side, n1, n2) \div 8 < Len(map)

VisitOfLastPair ==
    /\ pc = "walk"
    /\ base = 10
    /\ n1 = 9
    /\ n2 = 9
    /\ Pos(side, n1, n2) \div 8 = Len(map) - 1

Step(p) == <<p[2], (p[1] + p[2]) % base>>

RECURSIVE PeriodFrom(_, _, _)
PeriodFrom(p, q, t) ==
    IF q = p THEN t
    ELSE IF t > base * base THEN 0
    ELSE PeriodFrom(p, Step(q), t + 1)

Period(p) == PeriodFrom(p, Step(p), 1)

ClosesAtOwnStart ==
    /\ (pc = "walk" /\ Marked(map, side, n1, n2)) =>
          /\ Len(yielded) > 0
          /\ <<n1, n2>> = yielded[Len(yielded)]
          /\ \E i \in 1..Len(marks) : marks[i] = <<Len(orbits) + 1, n1, n2>>
    /\ pc = "done" =>
          /\ Len(yielded) = Len(orbits)
          /\ \A k \in 1..Len(orbits) : Len(orbits[k]) = Period(yielded[k])

SixtyCycleCloses ==
    /\ pc = "walk"
    /\ base = 10
    /\ Len(run) = 60
    /\ Marked(map, side, n1, n2)
    /\ <<n1, n2>> = <<0, 1>>

====
